---- MODULE Spec2Model ----
(***************************************************************************)
(* Umbra blind energy model (src/app.py): one run of the script, from the  *)
(* sidebar inputs to the result tables.                                    *)
(*                                                                         *)
(* Numbers.  The script computes in floating point; the model computes the *)
(* same expressions exactly, on integers in fixed units:                   *)
(*   usage            halves            (0.5 -> 1, 1.0 -> 2)               *)
(*   SHGC             hundredths        (0.27 -> 27); a blend is in 1/200  *)
(*   aperture         halves                                               *)
(*   U, delta U       twentieths        (0.20 -> 4);  a blend is in 1/40   *)
(*   cop, standby W   tenths                                               *)
(*   hours_day, lpd   halves                                               *)
(*   hours per day    1/200 h           (24 h -> 4800)                     *)
(*   energy           Wh                (the script's "/ 1000.0" makes kWh)*)
(*   tariffs          pence per kWh, so a cost is in 1/100000 pounds       *)
(*   CO2 factors      g per kWh, so CO2 is in mg (= 1e-6 kg = 1e-9 t)      *)
(* The input grids below are chosen so that every division is exact: the   *)
(* integer results are the real-number values of the script's expressions. *)
(***************************************************************************)
EXTENDS Integers, Sequences, FiniteSets, TLC

\* ------------------------------------------------------------------ bounds
MaxBlinds == 2

\* --------------------------------------------------------- climate, tables
GHI == <<24, 43, 75, 105, 132, 140, 145, 135, 100, 64, 35, 23>>
HDD == <<300, 255, 205, 115, 55, 18, 11, 25, 80, 165, 240, 290>>

SHGC_OLD == 45

NEW_FABRICS == [f \in {"Alu-Back", "White-Back", "Standard"} |->
                  CASE f = "Alu-Back" -> 27
                    [] f = "White-Back" -> 34
                    [] f = "Standard" -> 45]

DELTA_U_FABRIC == [f \in {"Alu-Back", "White-Back", "Standard"} |->
                     CASE f = "Alu-Back" -> 4
                       [] f = "White-Back" -> 3
                       [] f = "Standard" -> 2]

REFLECTIVE_FABRICS == {"Alu-Back", "White-Back"}

ELEC_CO2 == 233
HEAT_CO2 == 184
TREE_CO2 == 22
FLIGHT_CO2 == 16
CALENDAR_DAYS == 365
U_floor == 8

\* ------------------------------------------------------------ arithmetic
Max(a, b) == IF a >= b THEN a ELSE b
Min(a, b) == IF a <= b THEN a ELSE b

RECURSIVE SumTo(_, _)
SumTo(s, k) == IF k = 0 THEN 0 ELSE s[k] + SumTo(s, k - 1)

\* pandas Series.sum() over the 12 months
SeriesSum(s) == SumTo(s, Len(s))

\* Python round(n / d) for d > 0: nearest integer, ties to the even one.
\* n = q*d + r with 0 <= r < d; r is compared with d - r so that nothing
\* larger than d is formed.
RoundHalfEven(n, d) ==
    LET q == n \div d
        r == n % d
    IN  IF r < d - r THEN q
        ELSE IF r > d - r THEN q + 1
        ELSE IF q % 2 = 0 THEN q ELSE q + 1

\* ------------------------------------------------------- helper functions
\* hours per day a motor is moving, in 1/200 h: (moves * clamp(usage)) * 0.01
active_h_per_day(usage, moves) == moves * Max(0, Min(2, usage))

\* hours per day a motor is idle, in 1/200 h: max(0, 24 - active)
standby_h_per_day(usage, moves) == Max(0, 4800 - active_h_per_day(usage, moves))

\* Variant: standby counted on operating days only.
motor_kwh_standby_opdays(active_w, standby_w, usage, moves, operating_days, n) ==
    LET kwh == (10 * active_w * active_h_per_day(usage, moves) * operating_days
                + standby_w * standby_h_per_day(usage, moves) * operating_days)
               \div 2000
    IN  kwh * n

\* Annual motor energy in Wh.  active_w in W, standby_w in tenths of a W.
motor_kwh(active_w, standby_w, usage, moves, operating_days, n) ==
    LET kwh == (10 * active_w * active_h_per_day(usage, moves) * operating_days
                + standby_w * standby_h_per_day(usage, moves) * CALENDAR_DAYS)
               \div 2000
    IN  kwh * n

\* Variant: the control strategy is ignored.
lighting_adjustment_fabric_only(is_reflective, is_kn) ==
    IF is_reflective THEN 94 ELSE 100

\* Lighting multiplier, in hundredths.
lighting_adjustment(is_reflective, is_kn) ==
    IF is_kn /\ is_reflective THEN 60
    ELSE IF is_kn /\ ~is_reflective THEN 85
    ELSE IF is_reflective THEN 94 ELSE 100

\* Baseline lighting demand in Wh: lpd * area * (hours_day * days) / 1000 kWh.
lit_base(lpd, area, hours_day, days) == (lpd * area * (hours_day * days)) \div 4

\* Variant: the two blend weights exchanged.
SHGC_eff_weights_swapped(usage, shgc_bare, shgc_closed) ==
    usage * shgc_bare + (2 - usage) * shgc_closed

\* Variant: the blind-down SHGC whatever the usage.
SHGC_eff_always_closed(usage, shgc_bare, shgc_closed) == 2 * shgc_closed

\* Effective SHGC in 1/200: (1 - usage) * shgc_bare + usage * shgc_closed.
SHGC_eff(usage, shgc_bare, shgc_closed) ==
    (2 - usage) * shgc_bare + usage * shgc_closed

\* cop = max(1.0, cop), in tenths
cop_guard(c) == Max(10, c)

\* Cooling electricity in Wh: ((SHGC_eff * (irradiance*area*aperture)) / cop).sum()
cooling(shgc_eff, area, aperture, copv) ==
    SeriesSum([m \in 1..12 |->
                 ((shgc_eff * (GHI[m] * area * aperture)) * 25) \div copv])

\* Variant: no floor.
U_eff_unfloored(u_glass, usage, delta_u) == 2 * u_glass - usage * delta_u

\* Effective U in 1/40: max(U_floor, u_glass - usage * delta_u).
U_eff(u_glass, usage, delta_u) == Max(U_floor, 2 * u_glass - usage * delta_u)

\* Transmission heating in Wh: (U * area * hdd * 24 / 1000.0).sum() kWh
heating(u, area) ==
    SeriesSum([m \in 1..12 |-> (u * area * HDD[m] * 24) \div 40])

\* Kindow + reflective: the advisory and the thermal multipliers
kindow_advisory(is_kn, is_reflective) == is_kn /\ ~is_reflective
\* Variant: the thermal multipliers for any fabric under Kindow control.
kindow_active_any_fabric(is_kn, is_reflective) == is_kn
kindow_active(is_kn, is_reflective) == is_kn /\ is_reflective
kindow_cool(c) == (c * 125) \div 100
kindow_heat(h) == (h * 75) \div 100

\* Costs: motors, cooling and lighting at the electricity tariff, heating at
\* the heating tariff (i is the input record holding c_ele and c_heat)
cost_elec(kwh, i) == kwh * i.c_ele
\* Variant: heating billed at the electricity tariff.
cost_heat_at_c_ele(kwh, i) == kwh * i.c_ele
cost_heat(kwh, i) == kwh * i.c_heat

\* Carbon
co2_elec(m_old, c_old, l_old, m_new, c_new, l_new) ==
    ((m_old + c_old + l_old) - (m_new + c_new + l_new)) * ELEC_CO2
co2_heat(h_old, h_new) == (h_old - h_new) * HEAT_CO2
\* kg -> t is "/ 1000.0": the same integer, read in 1e-9 t instead of 1e-6 kg
kg_to_t(kg) == kg
\* Variant: no sign test.
trees_eq_unguarded(kg) == RoundHalfEven(kg, TREE_CO2 * 1000000)
\* int(round(co2_total_kg / TREE_CO2)) if co2_total_kg >= 0 else 0
trees_eq(kg) == IF kg >= 0 THEN RoundHalfEven(kg, TREE_CO2 * 1000000) ELSE 0
\* int(round(co2_total_t / FLIGHT_CO2)) if co2_total_t >= 0 else 0
flights_eq(t) == IF t >= 0 THEN RoundHalfEven(t, FLIGHT_CO2 * 100000000) ELSE 0

\* Totals
\* Variant: each category's saving clamped at zero.
total_saved_clamped(m_old, m_new, c_old, c_new, h_old, h_new, l_old, l_new) ==
    Max(0, m_old - m_new) + Max(0, c_old - c_new) + Max(0, h_old - h_new)
    + Max(0, l_old - l_new)
total_saved(m_old, m_new, c_old, c_new, h_old, h_new, l_old, l_new) ==
    (m_old - m_new) + (c_old - c_new) + (h_old - h_new) + (l_old - l_new)
elec_total(m, c, l) == m + c + l


\* ---------------------------------------------------------------- state
VARIABLES
    inp,                \* the sidebar inputs of this run
    pc,                 \* the section of the script that runs next
    lit_base_kwh, is_new_reflective, is_kindow,
    SHGC_eff_old, SHGC_eff_new, cop, cool_old, cool_new,
    U_old, U_new, heat_old, heat_new,
    advisory,           \* the Kindow st.warning has been shown
    motor_old_kwh, motor_new_kwh, lighting_old_kwh, lighting_new_kwh,
    cost_motor_old, cost_motor_new, cost_cool_old, cost_cool_new,
    cost_heat_old, cost_heat_new, cost_light_old, cost_light_new,
    co2_elec_saved, co2_heat_saved, co2_total_kg, co2_total_t,
    TREES_EQ, FLIGHTS_EQ,
    energy_saved, cost_saved, elec_old, elec_new, therm_old, therm_new

lightingVars == <<lit_base_kwh, is_new_reflective, is_kindow>>
solarVars == <<SHGC_eff_old, SHGC_eff_new, cop, U_old, U_new, cool_old, heat_old>>
newThermalVars == <<cool_new, heat_new>>
motorVars == <<motor_old_kwh, motor_new_kwh, lighting_old_kwh, lighting_new_kwh>>
costVars == <<cost_motor_old, cost_motor_new, cost_cool_old, cost_cool_new,
              cost_heat_old, cost_heat_new, cost_light_old, cost_light_new>>
carbonVars == <<co2_elec_saved, co2_heat_saved, co2_total_kg, co2_total_t,
                TREES_EQ, FLIGHTS_EQ>>
totalVars == <<energy_saved, cost_saved, elec_old, elec_new, therm_old, therm_new>>

vars == <<inp, pc, lightingVars, solarVars, newThermalVars, advisory,
          motorVars, costVars, carbonVars, totalVars>>

Fabrics == {"Alu-Back", "White-Back", "Standard"}
Strategies == {"Baseline (irradiance threshold)", "Kindow sun-tracking"}

\* Inputs the sidebar widgets can deliver (every value lies on the widget's
\* range and step).
SidebarInputs ==
    [area : {40, 80},
     usage_old : {0, 1, 2}, usage_new : {0, 1, 2},
     motor_old : {120}, motor_new : {10},
     standby : {0, 20}, moves_day : {40}, n_blinds : 1..MaxBlinds,
     fabric_key : Fabrics,
     shgc_bare : {30, 62}, aperture : {1, 2},
     u_glass : {4, 6, 24}, delta_u_old : {3, 20},
     cop : {50}, c_ele : {20}, c_heat : {10},
     strategy : Strategies,
     days : {260, 365}, hours_day : {20}, lpd : {16}]

\* Parameter sets handed to the calculation without the widgets' range
\* limits on usage and on the movement count.
UncheckedInputs ==
    [area : {40},
     usage_old : {-1, 0, 2, 3}, usage_new : {-1, 1, 2, 3},
     motor_old : {20}, motor_new : {10},
     standby : {0, 20}, moves_day : {40, 2500}, n_blinds : 1..MaxBlinds,
     fabric_key : {"Alu-Back", "Standard"},
     shgc_bare : {62}, aperture : {1},
     u_glass : {6, 24}, delta_u_old : {3},
     cop : {50}, c_ele : {20}, c_heat : {10},
     strategy : Strategies,
     days : {260}, hours_day : {20}, lpd : {16}]

Blank ==
    /\ pc = "lighting"
    /\ lit_base_kwh = 0 /\ is_new_reflective = FALSE /\ is_kindow = FALSE
    /\ SHGC_eff_old = 0 /\ SHGC_eff_new = 0 /\ cop = 0
    /\ cool_old = 0 /\ cool_new = 0
    /\ U_old = 0 /\ U_new = 0 /\ heat_old = 0 /\ heat_new = 0
    /\ advisory = FALSE
    /\ motor_old_kwh = 0 /\ motor_new_kwh = 0
    /\ lighting_old_kwh = 0 /\ lighting_new_kwh = 0
    /\ cost_motor_old = 0 /\ cost_motor_new = 0
    /\ cost_cool_old = 0 /\ cost_cool_new = 0
    /\ cost_heat_old = 0 /\ cost_heat_new = 0
    /\ cost_light_old = 0 /\ cost_light_new = 0
    /\ co2_elec_saved = 0 /\ co2_heat_saved = 0
    /\ co2_total_kg = 0 /\ co2_total_t = 0
    /\ TREES_EQ = 0 /\ FLIGHTS_EQ = 0
    /\ energy_saved = 0 /\ cost_saved = 0
    /\ elec_old = 0 /\ elec_new = 0 /\ therm_old = 0 /\ therm_new = 0

Init == inp \in SidebarInputs /\ Blank

InitUnchecked == inp \in UncheckedInputs /\ Blank

shgc_new == NEW_FABRICS[inp.fabric_key]
delta_u_new == DELTA_U_FABRIC[inp.fabric_key]

\* ---------------------------------------------------------------- actions
\* Lighting (TU/e effects): baseline demand and the two flags
Lighting ==
    /\ pc = "lighting"
    /\ lit_base_kwh' = lit_base(inp.lpd, inp.area, inp.hours_day, inp.days)
    /\ is_new_reflective' = (inp.fabric_key \in REFLECTIVE_FABRICS)
    /\ is_kindow' = (inp.strategy = "Kindow sun-tracking")
    /\ pc' = "solar"
    /\ UNCHANGED <<inp, solarVars, newThermalVars, advisory, motorVars,
                   costVars, carbonVars, totalVars>>

\* Solar & Thermal (with SHGC blending)
SolarThermal ==
    /\ pc = "solar"
    /\ SHGC_eff_old' = SHGC_eff(inp.usage_old, inp.shgc_bare, SHGC_OLD)
    /\ SHGC_eff_new' = SHGC_eff(inp.usage_new, inp.shgc_bare, shgc_new)
    /\ cop' = cop_guard(inp.cop)
    /\ cool_old' = cooling(SHGC_eff_old', inp.area, inp.aperture, cop')
    /\ cool_new' = cooling(SHGC_eff_new', inp.area, inp.aperture, cop')
    /\ U_old' = U_eff(inp.u_glass, inp.usage_old, inp.delta_u_old)
    /\ U_new' = U_eff(inp.u_glass, inp.usage_new, delta_u_new)
    /\ heat_old' = heating(U_old', inp.area)
    /\ heat_new' = heating(U_new', inp.area)
    /\ pc' = "control"
    /\ UNCHANGED <<inp, lightingVars, advisory, motorVars, costVars,
                   carbonVars, totalVars>>

\* Apply TU/e control multipliers to NEW thermal
Control ==
    /\ pc = "control"
    /\ advisory' = kindow_advisory(is_kindow, is_new_reflective)
    /\ IF kindow_active(is_kindow, is_new_reflective)
       THEN /\ cool_new' = kindow_cool(cool_new)
            /\ heat_new' = kindow_heat(heat_new)
       ELSE UNCHANGED newThermalVars
    /\ pc' = "motors"
    /\ UNCHANGED <<inp, lightingVars, solarVars, motorVars, costVars,
                   carbonVars, totalVars>>

\* Motors, then Lighting kWh
Motors ==
    /\ pc = "motors"
    /\ motor_old_kwh' = motor_kwh(inp.motor_old, inp.standby, inp.usage_old,
                                  inp.moves_day, inp.days, inp.n_blinds)
    /\ motor_new_kwh' = motor_kwh(inp.motor_new, inp.standby, inp.usage_new,
                                  inp.moves_day, inp.days, inp.n_blinds)
    /\ lighting_old_kwh' = (lit_base_kwh * 100) \div 100
    /\ lighting_new_kwh' =
         (lit_base_kwh * lighting_adjustment(is_new_reflective, is_kindow)) \div 100
    /\ pc' = "costs"
    /\ UNCHANGED <<inp, lightingVars, solarVars, newThermalVars, advisory,
                   costVars, carbonVars, totalVars>>

Costs ==
    /\ pc = "costs"
    /\ cost_motor_old' = cost_elec(motor_old_kwh, inp)
    /\ cost_motor_new' = cost_elec(motor_new_kwh, inp)
    /\ cost_cool_old' = cost_elec(cool_old, inp)
    /\ cost_cool_new' = cost_elec(cool_new, inp)
    /\ cost_heat_old' = cost_heat(heat_old, inp)
    /\ cost_heat_new' = cost_heat(heat_new, inp)
    /\ cost_light_old' = cost_elec(lighting_old_kwh, inp)
    /\ cost_light_new' = cost_elec(lighting_new_kwh, inp)
    /\ pc' = "carbon"
    /\ UNCHANGED <<inp, lightingVars, solarVars, newThermalVars, advisory,
                   motorVars, carbonVars, totalVars>>

Carbon ==
    /\ pc = "carbon"
    /\ co2_elec_saved' = co2_elec(motor_old_kwh, cool_old, lighting_old_kwh,
                                  motor_new_kwh, cool_new, lighting_new_kwh)
    /\ co2_heat_saved' = co2_heat(heat_old, heat_new)
    /\ co2_total_kg' = co2_elec_saved' + co2_heat_saved'
    /\ co2_total_t' = kg_to_t(co2_total_kg')
    /\ TREES_EQ' = trees_eq(co2_total_kg')
    /\ FLIGHTS_EQ' = flights_eq(co2_total_t')
    /\ pc' = "totals"
    /\ UNCHANGED <<inp, lightingVars, solarVars, newThermalVars, advisory,
                   motorVars, costVars, totalVars>>

\* Outputs: totals (site energy) and the electricity / heating split
Totals ==
    /\ pc = "totals"
    /\ energy_saved' = total_saved(motor_old_kwh, motor_new_kwh, cool_old, cool_new,
                                   heat_old, heat_new,
                                   lighting_old_kwh, lighting_new_kwh)
    /\ cost_saved' = total_saved(cost_motor_old, cost_motor_new,
                                 cost_cool_old, cost_cool_new,
                                 cost_heat_old, cost_heat_new,
                                 cost_light_old, cost_light_new)
    /\ elec_old' = elec_total(motor_old_kwh, cool_old, lighting_old_kwh)
    /\ elec_new' = elec_total(motor_new_kwh, cool_new, lighting_new_kwh)
    /\ therm_old' = heat_old
    /\ therm_new' = heat_new
    /\ pc' = "done"
    /\ UNCHANGED <<inp, lightingVars, solarVars, newThermalVars, advisory,
                   motorVars, costVars, carbonVars>>

Next ==
    \/ Lighting
    \/ SolarThermal
    \/ Control
    \/ Motors
    \/ Costs
    \/ Carbon
    \/ Totals

\* The script run from the sidebar
Spec == Init /\ [][Next]_vars

\* The same calculation on a parameter set not limited by the widgets
SpecUnchecked == InitUnchecked /\ [][Next]_vars

TypeOK ==
    /\ pc \in {"lighting", "solar", "control", "motors", "costs", "carbon",
               "totals", "done"}
    /\ advisory \in BOOLEAN
    /\ TREES_EQ \in Int /\ FLIGHTS_EQ \in Int


\* ------------------------------------------------- the run as a function
\* The whole calculation (script lines 206-345) on an input record i, section
\* by section in the script's order.  The actions above leave exactly this
\* in the variables (RunMatchesEngine), so statements that compare two runs
\* on different inputs are stated on Engine.
Engine(i) ==
    LET base == lit_base(i.lpd, i.area, i.hours_day, i.days)
        refl == i.fabric_key \in REFLECTIVE_FABRICS
        kn == (i.strategy = "Kindow sun-tracking")
        s_old == SHGC_eff(i.usage_old, i.shgc_bare, SHGC_OLD)
        s_new == SHGC_eff(i.usage_new, i.shgc_bare, NEW_FABRICS[i.fabric_key])
        c == cop_guard(i.cop)
        c_old == cooling(s_old, i.area, i.aperture, c)
        c_new0 == cooling(s_new, i.area, i.aperture, c)
        u_old == U_eff(i.u_glass, i.usage_old, i.delta_u_old)
        u_new == U_eff(i.u_glass, i.usage_new, DELTA_U_FABRIC[i.fabric_key])
        h_old == heating(u_old, i.area)
        h_new0 == heating(u_new, i.area)
        c_new == IF kindow_active(kn, refl) THEN kindow_cool(c_new0) ELSE c_new0
        h_new == IF kindow_active(kn, refl) THEN kindow_heat(h_new0) ELSE h_new0
        m_old == motor_kwh(i.motor_old, i.standby, i.usage_old, i.moves_day,
                           i.days, i.n_blinds)
        m_new == motor_kwh(i.motor_new, i.standby, i.usage_new, i.moves_day,
                           i.days, i.n_blinds)
        l_old == (base * 100) \div 100
        l_new == (base * lighting_adjustment(refl, kn)) \div 100
        kg == co2_elec(m_old, c_old, l_old, m_new, c_new, l_new)
              + co2_heat(h_old, h_new)
    IN  [SHGC_eff_old |-> s_old, SHGC_eff_new |-> s_new,
         U_old |-> u_old, U_new |-> u_new,
         advisory |-> kindow_advisory(kn, refl),
         motor_old_kwh |-> m_old, motor_new_kwh |-> m_new,
         cool_old |-> c_old, cool_new |-> c_new,
         heat_old |-> h_old, heat_new |-> h_new,
         lighting_old_kwh |-> l_old, lighting_new_kwh |-> l_new,
         cost_motor_old |-> cost_elec(m_old, i),
         cost_motor_new |-> cost_elec(m_new, i),
         cost_cool_old |-> cost_elec(c_old, i),
         cost_cool_new |-> cost_elec(c_new, i),
         cost_heat_old |-> cost_heat(h_old, i),
         cost_heat_new |-> cost_heat(h_new, i),
         cost_light_old |-> cost_elec(l_old, i),
         cost_light_new |-> cost_elec(l_new, i),
         co2_total_kg |-> kg,
         TREES_EQ |-> trees_eq(kg), FLIGHTS_EQ |-> flights_eq(kg_to_t(kg)),
         energy_saved |-> total_saved(m_old, m_new, c_old, c_new,
                                      h_old, h_new, l_old, l_new)]

\* What a finished run left in the variables, as a record of the same shape
Outputs ==
    [SHGC_eff_old |-> SHGC_eff_old, SHGC_eff_new |-> SHGC_eff_new,
     U_old |-> U_old, U_new |-> U_new,
     advisory |-> advisory,
     motor_old_kwh |-> motor_old_kwh, motor_new_kwh |-> motor_new_kwh,
     cool_old |-> cool_old, cool_new |-> cool_new,
     heat_old |-> heat_old, heat_new |-> heat_new,
     lighting_old_kwh |-> lighting_old_kwh, lighting_new_kwh |-> lighting_new_kwh,
     cost_motor_old |-> cost_motor_old, cost_motor_new |-> cost_motor_new,
     cost_cool_old |-> cost_cool_old, cost_cool_new |-> cost_cool_new,
     cost_heat_old |-> cost_heat_old, cost_heat_new |-> cost_heat_new,
     cost_light_old |-> cost_light_old, cost_light_new |-> cost_light_new,
     co2_total_kg |-> co2_total_kg,
     TREES_EQ |-> TREES_EQ, FLIGHTS_EQ |-> FLIGHTS_EQ,
     energy_saved |-> energy_saved]

RunMatchesEngine == pc = "done" => Outputs = Engine(inp)

\* Every division of the run is exact on the input grids, so the integers
\* are the exact values of the script's real-number expressions.
DivisionsExact ==
    /\ (inp.lpd * inp.area * (inp.hours_day * inp.days)) % 4 = 0
    /\ \A u \in {inp.usage_old, inp.usage_new} :
       \A w \in {inp.motor_old, inp.motor_new} :
          (10 * w * active_h_per_day(u, inp.moves_day) * inp.days
           + inp.standby * standby_h_per_day(u, inp.moves_day) * CALENDAR_DAYS)
          % 2000 = 0
    /\ \A m \in 1..12 :
         /\ pc \notin {"lighting", "solar"} =>
              /\ ((SHGC_eff_old * (GHI[m] * inp.area * inp.aperture)) * 25) % cop = 0
              /\ ((SHGC_eff_new * (GHI[m] * inp.area * inp.aperture)) * 25) % cop = 0
              /\ (U_old * inp.area * HDD[m] * 24) % 40 = 0
              /\ (U_new * inp.area * HDD[m] * 24) % 40 = 0
    /\ pc = "control" => (cool_new * 125) % 100 = 0 /\ (heat_new * 75) % 100 = 0
    /\ pc = "motors" =>
         (lit_base_kwh * lighting_adjustment(is_new_reflective, is_kindow)) % 100 = 0


\* ================================================================ claims
AfterSolar == pc \notin {"lighting", "solar"}
AfterControl == pc \notin {"lighting", "solar", "control"}
AfterMotors == pc \in {"costs", "carbon", "totals", "done"}
AfterCarbon == pc \in {"totals", "done"}

\* usage clamped to [0, 1] (in halves)
Clamp01(u) == Max(0, Min(2, u))

OperatingDayChoices == {200, 260, 365}

C2_A(u) == inp.moves_day * Clamp01(u)
C2_S(u) == Max(0, 4800 - C2_A(u))
C2_Expected2000(w, u, d) ==
    inp.n_blinds * (10 * w * C2_A(u) * d + inp.standby * C2_S(u) * 365)
C2_StandbyTerm(w, u, d) ==
    motor_kwh(w, inp.standby, u, inp.moves_day, d, inp.n_blinds)
    - motor_kwh(w, 0, u, inp.moves_day, d, inp.n_blinds)

C2_MotorFormula ==
    AfterMotors =>
      /\ motor_old_kwh * 2000
           = C2_Expected2000(inp.motor_old, inp.usage_old, inp.days)
      /\ motor_new_kwh * 2000
           = C2_Expected2000(inp.motor_new, inp.usage_new, inp.days)
      /\ \A d \in OperatingDayChoices :
           /\ C2_StandbyTerm(inp.motor_old, inp.usage_old, d)
                = C2_StandbyTerm(inp.motor_old, inp.usage_old, inp.days)
           /\ C2_StandbyTerm(inp.motor_new, inp.usage_new, d)
                = C2_StandbyTerm(inp.motor_new, inp.usage_new, inp.days)
           /\ motor_kwh(inp.motor_old, inp.standby, inp.usage_old,
                        inp.moves_day, d, inp.n_blinds) * 2000
                = C2_Expected2000(inp.motor_old, inp.usage_old, d)
      /\ \A u \in {inp.usage_old, inp.usage_new} :
           (u = 2 /\ inp.standby > 0 /\ C2_A(u) < 4800)
             => C2_StandbyTerm(inp.motor_new, u, inp.days) > 0

\* a run where one usage is clamped from above, the other is exactly 1 with
\* a standby draw and less than 24 active hours
C2_Witness ==
    /\ pc = "done"
    /\ inp.usage_old = 3 /\ inp.usage_new = 2
    /\ inp.standby > 0 /\ inp.moves_day = 40
    /\ motor_new_kwh > 0

\* a run with 25 active hours a day: the standby hours are clamped to 0
C2_WitnessNoStandbyHours ==
    /\ pc = "done" /\ inp.standby > 0
    /\ inp.moves_day * Clamp01(inp.usage_new) > 4800
    /\ C2_StandbyTerm(inp.motor_new, inp.usage_new, inp.days) = 0

\* C3: TREES_EQ >= 0 and FLIGHTS_EQ >= 0 always, and both are exactly 0
\* whenever the total CO2 saved (electricity part + heating part) is negative.
C3_EquivalencesNonNegative ==
    AfterCarbon =>
      /\ TREES_EQ >= 0
      /\ FLIGHTS_EQ >= 0
      /\ (co2_elec_saved + co2_heat_saved < 0) => (TREES_EQ = 0 /\ FLIGHTS_EQ = 0)

\* a run that loses more than 800 kg of CO2 (half a reference flight)
C3_Witness ==
    /\ pc = "done"
    /\ co2_elec_saved + co2_heat_saved < -800000000
    /\ TREES_EQ = 0 /\ FLIGHTS_EQ = 0

C3_WitnessPositive == pc = "done" /\ TREES_EQ > 0 /\ FLIGHTS_EQ > 0

\* C4: U_old and U_new are never below 0.20 and each equals
\* max(0.20, u_glass - usage * delta_u), also when the blend is below the
\* floor, zero or negative.
C4_UFloor ==
    AfterSolar =>
      /\ U_old >= 8
      /\ U_new >= 8
      /\ U_old = Max(8, 2 * inp.u_glass - inp.usage_old * inp.delta_u_old)
      /\ U_new = Max(8, 2 * inp.u_glass - inp.usage_new * delta_u_new)

\* the existing blend is negative, the new blend is zero; both sit on the floor
C4_Witness ==
    /\ pc = "done"
    /\ 2 * inp.u_glass - inp.usage_old * inp.delta_u_old < 0
    /\ 2 * inp.u_glass - inp.usage_new * delta_u_new = 0
    /\ U_old = 8 /\ U_new = 8


\* C5: with the new fabric's blind-down SHGC below shgc_bare, delta_u_new >= 0
\* and the Kindow thermal multipliers not active, raising usage_new within
\* [0,1] never increases cool_new or heat_new; in particular neither exceeds
\* its value at usage_new = 0.
C5_Pre ==
    /\ shgc_new < inp.shgc_bare
    /\ delta_u_new >= 0
    /\ ~(inp.strategy = "Kindow sun-tracking"
         /\ inp.fabric_key \in REFLECTIVE_FABRICS)

C5_MonotoneInUsageNew ==
    (pc = "done" /\ C5_Pre) =>
      \A u \in 0..inp.usage_new :
        LET lower == Engine([inp EXCEPT !.usage_new = u])
        IN  /\ cool_new <= lower.cool_new
            /\ heat_new <= lower.heat_new

\* usage_new = 1 and both cool_new and heat_new are strictly below their
\* values at usage_new = 0
C5_Witness ==
    /\ pc = "done" /\ C5_Pre /\ inp.usage_new = 2
    /\ cool_new < Engine([inp EXCEPT !.usage_new = 0]).cool_new
    /\ heat_new < Engine([inp EXCEPT !.usage_new = 0]).heat_new

\* C6: at usage = 0 the effective SHGC is shgc_bare and the effective U is
\* u_glass; at usage = 1 the effective SHGC is the system's blind-down SHGC
\* (0.45 existing, the fabric's value new) and the effective U is
\* max(0.20, u_glass - delta_u).  (SHGC in 1/200, U in 1/40.)
C6_UsageBoundaries ==
    AfterSolar =>
      /\ inp.usage_old = 0 =>
           (SHGC_eff_old = 2 * inp.shgc_bare /\ U_old = 2 * inp.u_glass)
      /\ inp.usage_new = 0 =>
           (SHGC_eff_new = 2 * inp.shgc_bare /\ U_new = 2 * inp.u_glass)
      /\ inp.usage_old = 2 =>
           /\ SHGC_eff_old = 2 * 45
           /\ U_old = Max(8, 2 * inp.u_glass - 2 * inp.delta_u_old)
      /\ inp.usage_new = 2 =>
           /\ SHGC_eff_new = 2 * NEW_FABRICS[inp.fabric_key]
           /\ U_new = Max(8, 2 * inp.u_glass - 2 * DELTA_U_FABRIC[inp.fabric_key])

C6_Witness ==
    /\ pc = "done" /\ inp.usage_old = 0 /\ inp.usage_new = 2
    /\ SHGC_eff_old # SHGC_eff_new /\ U_old # U_new

\* C7: replacing the electricity tariff t by k*t multiplies the motor,
\* cooling and lighting costs of both systems by k and leaves the heating
\* costs and every energy and CO2 output unchanged.
TariffFactors == {2, 3}

C7_TariffScaling ==
    pc = "done" =>
      \A k \in TariffFactors :
        LET e == Engine([inp EXCEPT !.c_ele = k * inp.c_ele])
        IN  /\ e.cost_motor_old = k * cost_motor_old
            /\ e.cost_motor_new = k * cost_motor_new
            /\ e.cost_cool_old = k * cost_cool_old
            /\ e.cost_cool_new = k * cost_cool_new
            /\ e.cost_light_old = k * cost_light_old
            /\ e.cost_light_new = k * cost_light_new
            /\ e.cost_heat_old = cost_heat_old
            /\ e.cost_heat_new = cost_heat_new
            /\ e.motor_old_kwh = motor_old_kwh /\ e.motor_new_kwh = motor_new_kwh
            /\ e.cool_old = cool_old /\ e.cool_new = cool_new
            /\ e.heat_old = heat_old /\ e.heat_new = heat_new
            /\ e.lighting_old_kwh = lighting_old_kwh
            /\ e.lighting_new_kwh = lighting_new_kwh
            /\ e.energy_saved = energy_saved
            /\ e.co2_total_kg = co2_total_kg
            /\ e.TREES_EQ = TREES_EQ /\ e.FLIGHTS_EQ = FLIGHTS_EQ

\* a run with a positive tariff and positive costs in every category, whose
\* heating tariff differs from the electricity tariff
C7_Witness ==
    /\ pc = "done" /\ inp.c_ele > 0 /\ inp.c_heat # inp.c_ele
    /\ cost_motor_old > 0 /\ cost_cool_new > 0 /\ cost_light_new > 0
    /\ cost_heat_old > 0 /\ cost_heat_new > 0

\* C8: lighting_new_kwh is the baseline lpd*area*hours_day*days/1000 times
\* 0.94 (reflective, baseline), 0.60 (reflective, Kindow), 0.85
\* (non-reflective, Kindow) or 1.00 (non-reflective, baseline), whatever the
\* other inputs; lighting_old_kwh is the baseline times 1.00.
C8_Table(reflective, advanced) ==
    CASE reflective /\ ~advanced -> 94
      [] reflective /\ advanced -> 60
      [] ~reflective /\ advanced -> 85
      [] ~reflective /\ ~advanced -> 100

C8_LightingTable ==
    AfterMotors =>
      LET baseline4 == inp.lpd * inp.area * inp.hours_day * inp.days
          reflective == inp.fabric_key \in {"Alu-Back", "White-Back"}
          advanced == inp.strategy = "Kindow sun-tracking"
      IN  /\ 4 * lighting_old_kwh = baseline4
          /\ 400 * lighting_new_kwh = baseline4 * C8_Table(reflective, advanced)

\* Kindow with the non-reflective fabric: the 0.85 fallback
C8_Witness ==
    /\ pc = "done"
    /\ inp.strategy = "Kindow sun-tracking" /\ inp.fabric_key = "Standard"
    /\ lighting_old_kwh > 0
    /\ 100 * lighting_new_kwh = 85 * lighting_old_kwh

\* C9: the advisory is emitted exactly when control is Kindow and the fabric
\* is not reflective; the run goes on to produce every output; the x1.25
\* cooling and x0.75 heating multipliers are applied to the new system exactly
\* when control is Kindow and the fabric is reflective (so not in the advisory
\* case), and never to the existing system.
C9_AdvisoryNotFailure ==
    LET advanced == inp.strategy = "Kindow sun-tracking"
        reflective == inp.fabric_key \in {"Alu-Back", "White-Back"}
        plain_cool_new == cooling(SHGC_eff_new, inp.area, inp.aperture, cop)
        plain_heat_new == heating(U_new, inp.area)
    IN  /\ pc # "done" => ENABLED Next
        /\ AfterControl =>
             /\ advisory <=> (advanced /\ ~reflective)
             /\ cool_old = cooling(SHGC_eff_old, inp.area, inp.aperture, cop)
             /\ heat_old = heating(U_old, inp.area)
             /\ IF advanced /\ reflective
                THEN 4 * cool_new = 5 * plain_cool_new
                     /\ 4 * heat_new = 3 * plain_heat_new
                ELSE cool_new = plain_cool_new /\ heat_new = plain_heat_new

\* the advisory was shown and the run finished with unmultiplied new values
C9_Witness ==
    /\ pc = "done" /\ advisory
    /\ cool_new = cooling(SHGC_eff_new, inp.area, inp.aperture, cop)
    /\ cool_new > 0 /\ heat_new > 0

\* C10: energy_saved is the sum over motor, cooling, heating and lighting of
\* old minus new kWh, cost_saved the same sum of costs; nothing is clamped
\* at zero; and energy_saved = (elec_old - elec_new) + (therm_old - therm_new).
C10_RollupTotals ==
    pc = "done" =>
      /\ energy_saved = (motor_old_kwh - motor_new_kwh) + (cool_old - cool_new)
                        + (heat_old - heat_new)
                        + (lighting_old_kwh - lighting_new_kwh)
      /\ cost_saved = (cost_motor_old - cost_motor_new)
                      + (cost_cool_old - cost_cool_new)
                      + (cost_heat_old - cost_heat_new)
                      + (cost_light_old - cost_light_new)
      /\ energy_saved = (elec_old - elec_new) + (therm_old - therm_new)

\* a run in which the new system is worse: both totals are negative
C10_Witness ==
    /\ pc = "done" /\ energy_saved < 0 /\ cost_saved < 0
    /\ cool_old - cool_new < 0

====
